---- MODULE Spec2Model ----
(***************************************************************************)
(* Tool registry (services/tool-registry) and tool gateway                 *)
(* (services/tool-gateway) of the tool-evo platform.                       *)
(*                                                                         *)
(* Strings the code inspects character by character (endpoint_url,         *)
(* endpoint_protocol, endpoint_method) are sequences of one-character      *)
(* strings; the Python value None of such a field is the one-element       *)
(* sequence NoneStr, which no string equals.                               *)
(***************************************************************************)
EXTENDS Integers, Sequences, FiniteSets, TLC

VARIABLES
    tools,      \* rows of table "tools"
    versions,   \* rows of table "tool_versions"
    now,        \* datetime.utcnow(), as a counter
    ct,         \* the create_tool requests in flight, per request slot
    resp,       \* the registry's latest response to a direct client
    gw          \* the call_tool request of the gateway

vars == <<tools, versions, now, ct, resp, gw>>

-----------------------------------------------------------------------------
(* Bounds *)

MaxVersions == 2        \* rows of tool_versions
MaxClock == 2           \* greatest value of the clock
NumCreators == 2        \* concurrent create_tool requests

Slugs == {"weather", "pollen"}
Labels == {"1.0.0"}
ToolIds == 1..(Cardinality(Slugs) + 1)
VersionIds == 1..(MaxVersions + 1)

-----------------------------------------------------------------------------
(* Values *)

NoneStr == <<"None">>
NoTime == -1

ToolStatus == {"draft", "active", "deprecated", "retired"}

\* The status field of a create payload: a status, or left out.
Unset == "unset"
PayloadStatuses == ToolStatus \cup {Unset}

HTTP_http == <<"h", "t", "t", "p">>
HTTP_https == <<"h", "t", "t", "p", "s">>
P_grpc == <<"g", "r", "p", "c">>
P_internal == <<"i", "n", "t", "e", "r", "n", "a", "l">>
SchemeSep == <<":", "/", "/">>

Protocols == {HTTP_http, HTTP_https, P_grpc, P_internal}

M_GET == <<"G", "E", "T">>
M_POST == <<"P", "O", "S", "T">>
M_get == <<"g", "e", "t">>
M_PUT == <<"P", "U", "T">>
Methods == {NoneStr, <<>>, M_GET, M_POST, M_get, M_PUT}

U_abs == HTTP_http \o SchemeSep \o <<"w">>          \* "http://w"
U_abss == HTTP_https \o SchemeSep \o <<"w">>        \* "https://w"
U_rel == <<"w", "/", "x">>                          \* "w/x"
U_httpbin == HTTP_http \o <<"b", "/", "x">>         \* "httpb/x"
U_grpc == P_grpc \o SchemeSep \o <<"w">>            \* "grpc://w"
Urls == {NoneStr, <<>>, U_abs, U_abss, U_rel, U_httpbin, U_grpc}

\* The endpoint fields of a version payload.
Endpoints == [endpoint_protocol : Protocols, endpoint_method : Methods,
              endpoint_url : Urls]

\* The endpoint the registry is driven with: the test harness's version.
RegistryEndpoints ==
    { [endpoint_protocol |-> HTTP_http, endpoint_method |-> M_GET,
       endpoint_url |-> U_abs] }

\* valid_from / valid_to of a payload: unset, or a window that closed at 0,
\* before every value of the clock.
NoWindow == [valid_from |-> NoTime, valid_to |-> NoTime]
Windows == { NoWindow, [valid_from |-> NoTime, valid_to |-> 0] }

\* req.input of a call_tool request.
Inputs == { [city |-> "Paris"], [city |-> "Oslo"] }

\* What the tool endpoint may answer: a status and a body text.
DownstreamStatuses == {200, 404, 500}
BodyJson == "{\"temperatureC\": 26.5}"
BodyText == "Internal Server Error"
Bodies == {BodyJson, BodyText}

NoResp == [op |-> "none"]
NoReply == [kind |-> "none"]
TransportError == [kind |-> "transport_error"]
IdleCall ==
    [pc |-> "idle", slug |-> "", input |-> NoReply, reg |-> NoReply,
     target |-> NoneStr, sent |-> <<>>, answer |-> NoReply,
     reply |-> NoReply]

-----------------------------------------------------------------------------
(* Store queries *)

\* db.query(Tool).filter(Tool.slug == slug)
ToolsBySlug(slug) == {t \in tools : t.slug = slug}

\* Variant of ToolsById: the id is not compared.
ToolsByIdMut(id) == tools

\* db.query(Tool).filter(Tool.id == id)
ToolsById(id) == {t \in tools : t.id = id}

\* db.query(ToolVersion).filter(tool_id == .., id == ..)
VersionsByIds(tool_id, version_id) ==
    {v \in versions : v.tool_id = tool_id /\ v.id = version_id}

\* The unique index on tools.slug: an INSERT of this slug is refused.
SlugIndexRefuses(slug) == ToolsBySlug(slug) # {}

\* Variant of ExistingTool: the existence query is left out.
ExistingToolMut(slug) == {}

\* The existence query of create_tool.
ExistingTool(slug) == ToolsBySlug(slug)

\* Variant of ActiveVersions: every status but retired passes the filter.
ActiveVersionsMut(tool_id) ==
    {v \in versions : v.tool_id = tool_id /\ v.status # "retired"}

\* filter(tool_id == tool.id, status == active)
ActiveVersions(tool_id) ==
    {v \in versions : v.tool_id = tool_id /\ v.status = "active"}

\* Variant of LatestActive: ascending order, the oldest row first.
LatestActiveMut(tool_id) ==
    {v \in ActiveVersions(tool_id) :
        \A w \in ActiveVersions(tool_id) : v.created_at <= w.created_at}

\* order_by(created_at.desc()).first(): the rows .first() may return. Rows of
\* equal created_at come in an order the database does not fix.
LatestActive(tool_id) ==
    {v \in ActiveVersions(tool_id) :
        \A w \in ActiveVersions(tool_id) : w.created_at <= v.created_at}

\* The responses resolve_tool can give for slug in the current store.
ResolveOutcomes(slug) ==
    IF ToolsBySlug(slug) = {}
    THEN {[status |-> 404, detail |-> "Tool not found"]}
    ELSE LET tool == CHOOSE t \in ToolsBySlug(slug) : TRUE
         IN  IF LatestActive(tool.id) = {}
             THEN {[status |-> 404,
                    detail |-> "No active version for this tool"]}
             ELSE {[status |-> 200, tool |-> tool, version |-> v] :
                        v \in LatestActive(tool.id)}

-----------------------------------------------------------------------------
(* Registry operations *)

\* The registry after start-up: create_all on an empty database.
Init ==
    /\ tools = {}
    /\ versions = {}
    /\ now = 1
    /\ ct = [r \in 1..NumCreators |-> [pc |-> "idle"]]
    /\ resp = NoResp
    /\ gw = IdleCall

\* datetime.utcnow() advances between two statements.
Tick ==
    /\ now < MaxClock
    /\ now' = now + 1
    /\ UNCHANGED <<tools, versions, ct, resp, gw>>

\* Handlers are sync functions run on a thread pool, one session each: two
\* create_tool requests interleave between the query and the commit. The
\* other handlers read or write one row in one transaction and are one step.

\* create_tool, up to the existence check: 400 when the slug is stored.
create_tool_query(r, slug) ==
    /\ ct[r].pc # "checked"
    /\ IF ExistingTool(slug) # {}
       THEN /\ ct' = [ct EXCEPT ![r] =
                        [pc |-> "done", slug |-> slug, status |-> 400]]
            /\ resp' = [op |-> "create_tool", slug |-> slug, status |-> 400]
       ELSE /\ ct' = [ct EXCEPT ![r] = [pc |-> "checked", slug |-> slug]]
            /\ resp' = resp
    /\ UNCHANGED <<tools, versions, now, gw>>

\* create_tool, db.add / db.commit: the INSERT. A slug the unique index
\* refuses raises IntegrityError, which nothing catches: 500.
create_tool_commit(r) ==
    /\ ct[r].pc = "checked"
    /\ LET slug == ct[r].slug
       IN  IF SlugIndexRefuses(slug)
           THEN /\ tools' = tools
                /\ ct' = [ct EXCEPT ![r] =
                            [pc |-> "done", slug |-> slug, status |-> 500]]
                /\ resp' = [op |-> "create_tool", slug |-> slug,
                            status |-> 500]
           ELSE /\ tools' = tools \cup
                        {[id |-> Cardinality(tools) + 1, slug |-> slug,
                          created_at |-> now]}
                /\ ct' = [ct EXCEPT ![r] =
                            [pc |-> "done", slug |-> slug, status |-> 201]]
                /\ resp' = [op |-> "create_tool", slug |-> slug,
                            status |-> 201]
    /\ UNCHANGED <<versions, now, gw>>

\* Variant of PayloadStatus: the payload's status is dropped, every row
\* starts as draft.
PayloadStatusMut(status) == "draft"

\* ToolVersionBase.status: the payload's status, draft when left out.
PayloadStatus(status) == IF status = Unset THEN "draft" ELSE status

\* create_tool_version: 404 for an unknown tool, else one new row carrying
\* the payload, status included.
create_tool_version(tool_id, label, status, endpoint, window) ==
    /\ Cardinality(versions) < MaxVersions
    /\ IF ToolsById(tool_id) = {}
       THEN /\ versions' = versions
            /\ resp' = [op |-> "create_tool_version", status |-> 404]
       ELSE LET row == [id |-> Cardinality(versions) + 1,
                        tool_id |-> tool_id,
                        version |-> label,
                        status |-> PayloadStatus(status),
                        endpoint_protocol |-> endpoint.endpoint_protocol,
                        endpoint_method |-> endpoint.endpoint_method,
                        endpoint_url |-> endpoint.endpoint_url,
                        valid_from |-> window.valid_from,
                        valid_to |-> window.valid_to,
                        created_at |-> now]
            IN  /\ versions' = versions \cup {row}
                /\ resp' = [op |-> "create_tool_version", status |-> 201]
    /\ UNCHANGED <<tools, now, ct, gw>>

\* Variant of NewStatus: a retired version stays retired.
NewStatusMut(old, status) == IF old = "retired" THEN old ELSE status

\* version.status = status_update.status, whatever the status was.
NewStatus(old, status) == status

\* Variant of update_tool_version_status: setting a version active also
\* retires the other active versions of its tool.
update_tool_version_statusMut(tool_id, version_id, status) ==
    /\ IF VersionsByIds(tool_id, version_id) = {}
       THEN /\ versions' = versions
            /\ resp' = [op |-> "update_tool_version_status", status |-> 404]
       ELSE /\ versions' =
                {IF v.id = version_id
                 THEN [v EXCEPT !.status = status]
                 ELSE IF /\ status = "active"
                         /\ v.tool_id = tool_id
                         /\ v.status = "active"
                      THEN [v EXCEPT !.status = "retired"]
                      ELSE v : v \in versions}
            /\ resp' = [op |-> "update_tool_version_status",
                        status |-> 200]
    /\ UNCHANGED <<tools, now, ct, gw>>

\* update_tool_version_status: overwrites the status of the row.
update_tool_version_status(tool_id, version_id, status) ==
    /\ IF VersionsByIds(tool_id, version_id) = {}
       THEN /\ versions' = versions
            /\ resp' = [op |-> "update_tool_version_status", status |-> 404]
       ELSE LET old == CHOOSE v \in VersionsByIds(tool_id, version_id) : TRUE
                new == [old EXCEPT !.status = NewStatus(old.status, status)]
            IN  /\ versions' = (versions \ {old}) \cup {new}
                /\ resp' = [op |-> "update_tool_version_status",
                            status |-> 200]
    /\ UNCHANGED <<tools, now, ct, gw>>

\* resolve_tool
resolve_tool(slug) ==
    /\ \E out \in ResolveOutcomes(slug) :
            resp' = [op |-> "resolve_tool", slug |-> slug, out |-> out]
    /\ UNCHANGED <<tools, versions, now, ct, gw>>

\* The response of get_tool_version in the current store.
GetToolVersionOutcome(tool_id, version_id) ==
    IF VersionsByIds(tool_id, version_id) = {}
    THEN [status |-> 404, detail |-> "Tool version not found"]
    ELSE [status |-> 200,
          version |-> CHOOSE v \in VersionsByIds(tool_id, version_id) : TRUE]

\* get_tool_version
get_tool_version(tool_id, version_id) ==
    /\ resp' = [op |-> "get_tool_version", tool_id |-> tool_id,
                version_id |-> version_id,
                out |-> GetToolVersionOutcome(tool_id, version_id)]
    /\ UNCHANGED <<tools, versions, now, ct, gw>>

CreateToolQuery ==
    \E r \in 1..NumCreators, slug \in Slugs : create_tool_query(r, slug)
CreateToolCommit == \E r \in 1..NumCreators : create_tool_commit(r)
CreateToolVersion ==
    \E tool_id \in ToolIds, label \in Labels, status \in PayloadStatuses,
       endpoint \in RegistryEndpoints, window \in Windows :
        create_tool_version(tool_id, label, status, endpoint, window)
UpdateToolVersionStatus ==
    \E tool_id \in ToolIds, version_id \in VersionIds, status \in ToolStatus :
        update_tool_version_status(tool_id, version_id, status)
ResolveTool == \E slug \in Slugs : resolve_tool(slug)
\* create_tool_version with payloads that leave valid_from and valid_to out.
CreatePlainToolVersion ==
    \E tool_id \in ToolIds, label \in Labels, status \in PayloadStatuses,
       endpoint \in RegistryEndpoints :
        create_tool_version(tool_id, label, status, endpoint, NoWindow)
GetToolVersion ==
    \E tool_id \in ToolIds, version_id \in VersionIds :
        get_tool_version(tool_id, version_id)

\* The tools table under concurrent create_tool requests.
NextTools ==
    \/ Tick
    \/ CreateToolQuery
    \/ CreateToolCommit

SpecTools == Init /\ [][NextTools]_vars

\* A registry whose tools table holds one or both tools, created at
\* start-up time, and no version yet.
InitStore ==
    /\ tools \in { {[id |-> 1, slug |-> "weather", created_at |-> 1]},
                   {[id |-> 1, slug |-> "weather", created_at |-> 1],
                    [id |-> 2, slug |-> "pollen", created_at |-> 1]} }
    /\ versions = {}
    /\ now = 1
    /\ ct = [r \in 1..NumCreators |-> [pc |-> "idle"]]
    /\ resp = NoResp
    /\ gw = IdleCall

Next ==
    \/ Tick
    \/ CreateToolVersion
    \/ UpdateToolVersionStatus
    \/ ResolveTool

Spec == InitStore /\ [][Next]_vars

\* The versions of the stored tools under creation, status updates and
\* reads of single versions.
NextLifecycle ==
    \/ CreatePlainToolVersion
    \/ UpdateToolVersionStatus
    \/ GetToolVersion

SpecLifecycle == InitStore /\ [][NextLifecycle]_vars

-----------------------------------------------------------------------------
(* Gateway: call_tool *)

StartsWith(s, prefix) ==
    /\ Len(s) >= Len(prefix)
    /\ SubSeq(s, 1, Len(prefix)) = prefix

\* str.upper() on the letters the methods are written with.
UpperChar(c) ==
    CASE c = "g" -> "G" [] c = "e" -> "E" [] c = "t" -> "T"
      [] c = "p" -> "P" [] c = "o" -> "O" [] c = "s" -> "S"
      [] c = "u" -> "U" [] OTHER -> c
Upper(s) == [i \in 1..Len(s) |-> UpperChar(s[i])]

\* Python truthiness of an optional string: None and "" are false.
Falsy(s) == s = NoneStr \/ s = <<>>

\* (version.get("endpoint_method") or "POST").upper()
EndpointMethod(version) ==
    IF Falsy(version.endpoint_method) THEN M_POST
    ELSE Upper(version.endpoint_method)

\* if not endpoint_url.startswith("http"): prefix the protocol
TargetUrl(version) ==
    IF StartsWith(version.endpoint_url, HTTP_http)
    THEN version.endpoint_url
    ELSE version.endpoint_protocol \o SchemeSep \o version.endpoint_url

\* Variant of RequestFor: every method posts a JSON body.
RequestForMut(method, url, input) ==
    [form |-> "json", url |-> url, payload |-> input]

\* client.get(url, params=input) / client.post(url, json=input)
RequestFor(method, url, input) ==
    IF method = M_GET
    THEN [form |-> "query", url |-> url, payload |-> input]
    ELSE [form |-> "json", url |-> url, payload |-> input]

\* httpx sends to http:// and https:// URLs only; for any other URL the
\* client raises UnsupportedProtocol, a RequestError, and sends nothing.
Sendable(url) ==
    \/ StartsWith(url, HTTP_http \o SchemeSep)
    \/ StartsWith(url, HTTP_https \o SchemeSep)

\* tool_resp.json(), or {"raw": tool_resp.text} on ValueError
JsonLoads(text) ==
    IF text = BodyJson
    THEN [ok |-> TRUE, value |-> [temperatureC |-> "26.5"]]
    ELSE [ok |-> FALSE]

\* Variant of ToolData: the body is never parsed.
ToolDataMut(text) == [raw |-> text]

\* data = tool_resp.json(), {"raw": tool_resp.text} when that raises
ToolData(text) ==
    IF JsonLoads(text).ok THEN JsonLoads(text).value ELSE [raw |-> text]

\* raise HTTPException(status_code=status): call_tool ends in failure.
Fail(call, status, detail) ==
    [call EXCEPT !.pc = "done",
                 !.reply = [kind |-> "response", status |-> status,
                            detail |-> detail]]

\* Variant of RegistryReplies: the gateway keeps the reply of its previous
\* call for the same slug instead of asking again.
RegistryRepliesMut(slug) ==
    IF gw.slug = slug /\ gw.reg # NoReply
    THEN {gw.reg}
    ELSE {[kind |-> "response", status |-> out.status, out |-> out] :
            out \in ResolveOutcomes(slug)}

\* What GET {REGISTRY_BASE_URL}/resolve may come back with: a response of
\* resolve_tool, a 500 of the registry (its store failed), or no response.
RegistryReplies(slug) ==
    {[kind |-> "response", status |-> out.status, out |-> out] :
        out \in ResolveOutcomes(slug)}
    \cup {[kind |-> "response", status |-> 500,
           out |-> [status |-> 500, detail |-> "Internal Server Error"]]}
    \cup {TransportError}

\* Step 1, resolve. A registry that cannot be reached raises
\* httpx.RequestError outside every try block: the framework answers 500.
ResolveStep(slug, input, reg) ==
    LET call == [IdleCall EXCEPT !.slug = slug, !.input = input, !.reg = reg]
    IN  IF reg.kind = "transport_error"
        THEN Fail(call, 500, "Internal Server Error")
        ELSE IF reg.status # 200
        THEN Fail(call, reg.status, "Failed to resolve tool")
        ELSE [call EXCEPT !.pc = "resolved"]

\* Variant of DispatchStep: no check of endpoint_url or endpoint_method.
DispatchStepMut(call) ==
    LET version == call.reg.out.version
        method == EndpointMethod(version)
        target == TargetUrl(version)
    IN  IF ~Sendable(target)
        THEN Fail([call EXCEPT !.target = target], 502,
                  "Error calling tool endpoint")
        ELSE [call EXCEPT !.pc = "awaiting", !.target = target,
                          !.sent = Append(@, RequestFor(method, target,
                                                        call.input))]

\* Variant of DispatchStep: the version is looked up again before the
\* request and the call fails when it is no longer stored as active.
DispatchStepRecheck(call) ==
    LET version == call.reg.out.version
        method == EndpointMethod(version)
        target == TargetUrl(version)
    IN  IF \A v \in versions : v.id = version.id => v.status # "active"
        THEN Fail(call, 404, "Failed to resolve tool")
        ELSE IF Falsy(version.endpoint_url)
        THEN Fail(call, 500, "Tool endpoint_url is not set")
        ELSE IF method \notin {M_GET, M_POST}
        THEN Fail([call EXCEPT !.target = target], 500,
                  "Unsupported endpoint_method")
        ELSE IF ~Sendable(target)
        THEN Fail([call EXCEPT !.target = target], 502,
                  "Error calling tool endpoint")
        ELSE [call EXCEPT !.pc = "awaiting", !.target = target,
                          !.sent = Append(@, RequestFor(method, target,
                                                        call.input))]

\* Step 2 up to the await: the target, the method, the request sent.
DispatchStep(call) ==
    LET version == call.reg.out.version
        method == EndpointMethod(version)
        target == TargetUrl(version)
    IN  IF Falsy(version.endpoint_url)
        THEN Fail(call, 500, "Tool endpoint_url is not set")
        ELSE IF method \notin {M_GET, M_POST}
        THEN Fail([call EXCEPT !.target = target], 500,
                  "Unsupported endpoint_method")
        ELSE IF ~Sendable(target)
        THEN Fail([call EXCEPT !.target = target], 502,
                  "Error calling tool endpoint")
        ELSE [call EXCEPT !.pc = "awaiting", !.target = target,
                          !.sent = Append(@, RequestFor(method, target,
                                                        call.input))]

\* Variant of OnRequestError: the dispatch is tried again.
OnRequestErrorMut(call) == [call EXCEPT !.pc = "resolved"]

\* except httpx.RequestError: 502, once.
OnRequestError(call) == Fail(call, 502, "Error calling tool endpoint")

\* Variant of OnResponse: a downstream 4xx/5xx becomes a gateway failure.
OnResponseMut(call, answer) ==
    IF answer.status >= 400
    THEN Fail(call, 502, "Error calling tool endpoint")
    ELSE [call EXCEPT !.pc = "done",
                 !.reply = [kind |-> "response", status |-> 200,
                            tool |-> call.reg.out.tool,
                            version |-> call.reg.out.version,
                            tool_status_code |-> answer.status,
                            result |-> ToolData(answer.text)]]

\* The tool endpoint answered: the combined response, whatever its status.
OnResponse(call, answer) ==
    [call EXCEPT !.pc = "done",
                 !.reply = [kind |-> "response", status |-> 200,
                            tool |-> call.reg.out.tool,
                            version |-> call.reg.out.version,
                            tool_status_code |-> answer.status,
                            result |-> ToolData(answer.text)]]

ToolAnswers ==
    [kind : {"response"}, status : DownstreamStatuses, text : Bodies]

call_tool_resolve(slug, input, reg) ==
    /\ gw.pc \in {"idle", "done"}
    /\ gw' = ResolveStep(slug, input, reg)
    /\ UNCHANGED <<tools, versions, now, ct, resp>>

call_tool_dispatch ==
    /\ gw.pc = "resolved"
    /\ gw' = DispatchStep(gw)
    /\ UNCHANGED <<tools, versions, now, ct, resp>>

call_tool_request_error ==
    /\ gw.pc = "awaiting"
    /\ gw' = OnRequestError([gw EXCEPT !.answer = TransportError])
    /\ UNCHANGED <<tools, versions, now, ct, resp>>

call_tool_response(answer) ==
    /\ gw.pc = "awaiting"
    /\ gw' = OnResponse([gw EXCEPT !.answer = answer], answer)
    /\ UNCHANGED <<tools, versions, now, ct, resp>>

CallToolResolve ==
    \E slug \in Slugs, input \in Inputs :
        \E reg \in RegistryReplies(slug) : call_tool_resolve(slug, input, reg)
CallToolResponse == \E answer \in ToolAnswers : call_tool_response(answer)

\* A registry holding the tool "weather" with one version, whose endpoint
\* fields and status are any a create_tool_version payload can carry.
InitGateway ==
    /\ tools = {[id |-> 1, slug |-> "weather", created_at |-> 1]}
    /\ \E endpoint \in Endpoints, status \in {"active", "draft"} :
        versions = {[id |-> 1, tool_id |-> 1, version |-> "1.0.0",
                     status |-> status,
                     endpoint_protocol |-> endpoint.endpoint_protocol,
                     endpoint_method |-> endpoint.endpoint_method,
                     endpoint_url |-> endpoint.endpoint_url,
                     valid_from |-> NoTime, valid_to |-> NoTime,
                     created_at |-> 1]}
    /\ now = 1
    /\ ct = [r \in 1..NumCreators |-> [pc |-> "idle"]]
    /\ resp = NoResp
    /\ gw = IdleCall

NextGateway ==
    \/ CallToolResolve
    \/ call_tool_dispatch
    \/ call_tool_request_error
    \/ CallToolResponse

SpecGateway == InitGateway /\ [][NextGateway]_vars

\* The request the test harness sends through the gateway, and the answer
\* of the weather mock.
HarnessInput == [city |-> "TestCity"]
HarnessAnswer == [kind |-> "response", status |-> 200, text |-> BodyJson]

\* The harness creates its versions active; an operator retires a version
\* and brings it back.
HarnessCreateToolVersion ==
    \E tool_id \in ToolIds, label \in Labels, endpoint \in RegistryEndpoints :
        create_tool_version(tool_id, label, "active", endpoint, NoWindow)
HarnessUpdateStatus ==
    \E tool_id \in ToolIds, version_id \in VersionIds,
       status \in {"active", "retired"} :
        update_tool_version_status(tool_id, version_id, status)
HarnessCallResolve ==
    \E slug \in Slugs :
        \E reg \in RegistryReplies(slug) :
            call_tool_resolve(slug, HarnessInput, reg)
HarnessCallResponse == call_tool_response(HarnessAnswer)

\* The registry and the gateway side by side: versions are created and
\* their statuses updated while resolve requests and one call_tool at a
\* time are in progress.
NextLive ==
    \/ Tick
    \/ HarnessCreateToolVersion
    \/ HarnessUpdateStatus
    \/ ResolveTool
    \/ HarnessCallResolve
    \/ call_tool_dispatch
    \/ call_tool_request_error
    \/ HarnessCallResponse

SpecLive == InitStore /\ [][NextLive]_vars

-----------------------------------------------------------------------------
(* Registry: list_tools *)

\* Slugs and display names as list_tools inspects them, letter by letter.
S_weather == <<"w", "e", "a", "t", "h", "e", "r", "-", "b", "a", "s", "i", "c">>
D_weather == <<"W", "e", "a", "t", "h", "e", "r", " ", "B", "a", "s", "i", "c">>
S_pollen == <<"p", "o", "l", "l", "e", "n", "-", "i", "n", "d", "e", "x">>
D_pollen == <<"P", "o", "l", "l", "e", "n", " ", "I", "n", "d", "e", "x">>
S_uv == <<"u", "v", "-", "i", "n", "d", "e", "x">>
D_uv == <<"U", "V", " ", "I", "n", "d", "e", "x">>

\* The tools a registry may hold, without their creation times.
Catalog ==
    { [id |-> 1, slug |-> S_weather, display_name |-> D_weather],
      [id |-> 2, slug |-> S_pollen, display_name |-> D_pollen],
      [id |-> 3, slug |-> S_uv, display_name |-> D_uv] }

\* The search parameter: absent, empty, or a text.
Q_weat == <<"w", "e", "a", "t">>
Q_WEAT == <<"W", "E", "A", "T">>
Q_rb == <<"r", " ", "b">>
Q_xyz == <<"x", "y", "z">>
Q_under == <<"_">>
Q_percent == <<"%">>
Searches ==
    {NoneStr, <<>>, Q_weat, Q_WEAT, Q_rb, Q_xyz, Q_under, Q_percent}

\* lower() on the capital letters that occur.
LowerChar(c) ==
    CASE c = "W" -> "w" [] c = "E" -> "e" [] c = "A" -> "a"
      [] c = "T" -> "t" [] c = "B" -> "b" [] c = "P" -> "p"
      [] c = "I" -> "i" [] c = "U" -> "u" [] c = "V" -> "v"
      [] OTHER -> c
Lower(s) == [i \in 1..Len(s) |-> LowerChar(s[i])]

\* SQL LIKE without an escape character: % stands for any text, _ for any
\* one character, every other character for itself.
RECURSIVE Like(_, _)
Like(s, pattern) ==
    IF pattern = <<>> THEN s = <<>>
    ELSE IF Head(pattern) = "%"
    THEN Like(s, Tail(pattern)) \/ (s # <<>> /\ Like(Tail(s), pattern))
    ELSE /\ s # <<>>
         /\ Head(pattern) = "_" \/ Head(pattern) = Head(s)
         /\ Like(Tail(s), Tail(pattern))

\* column.ilike(pattern): lower(column) LIKE lower(pattern)
ILike(s, pattern) == Like(Lower(s), Lower(pattern))

\* The rows list_tools selects: all without a search, else those whose slug
\* or display_name is like "%{search}%".
ListedTools(search) ==
    IF Falsy(search) THEN tools
    ELSE LET like == <<"%">> \o search \o <<"%">>
         IN  {t \in tools :
                ILike(t.slug, like) \/ ILike(t.display_name, like)}

\* order_by(created_at.desc()).all(): the rows, newest first; rows created
\* at the same time come in any order.
NewestFirst(rows) ==
    {q \in [1..Cardinality(rows) -> rows] :
        /\ \A i, j \in 1..Cardinality(rows) : i # j => q[i] # q[j]
        /\ \A i, j \in 1..Cardinality(rows) :
                i < j => q[i].created_at >= q[j].created_at}

\* list_tools
list_tools(search) ==
    /\ \E out \in NewestFirst(ListedTools(search)) :
            resp' = [op |-> "list_tools", search |-> search, out |-> out]
    /\ UNCHANGED <<tools, versions, now, ct, gw>>

ListTools == \E search \in Searches : list_tools(search)

\* A registry holding any of the catalog's tools, each created at some time
\* up to now.
InitList ==
    /\ \E held \in SUBSET Catalog :
        \E at \in [held -> 1..MaxClock] :
            tools = {[id |-> t.id, slug |-> t.slug,
                      display_name |-> t.display_name,
                      created_at |-> at[t]] : t \in held}
    /\ versions = {}
    /\ now = MaxClock
    /\ ct = [r \in 1..NumCreators |-> [pc |-> "idle"]]
    /\ resp = NoResp
    /\ gw = IdleCall

NextList == ListTools

SpecList == InitList /\ [][NextList]_vars

-----------------------------------------------------------------------------
(* The platform: every handler of the registry and the gateway *)

\* get_tool: the tool with its versions, or 404.
get_tool(tool_id) ==
    /\ resp' = [op |-> "get_tool", tool_id |-> tool_id,
                out |-> IF ToolsById(tool_id) = {}
                        THEN [status |-> 404, detail |-> "Tool not found"]
                        ELSE [status |-> 200,
                              tool |-> CHOOSE t \in ToolsById(tool_id) : TRUE,
                              versions |-> {v \in versions :
                                                v.tool_id = tool_id}]]
    /\ UNCHANGED <<tools, versions, now, ct, gw>>

\* list_tool_versions: the versions of the tool, of one status when the
\* filter is set, newest first; no check that the tool exists.
list_tool_versions(tool_id, status) ==
    /\ LET rows == {v \in versions :
                        /\ v.tool_id = tool_id
                        /\ status # Unset => v.status = status}
       IN  \E out \in NewestFirst(rows) :
                resp' = [op |-> "list_tool_versions", tool_id |-> tool_id,
                         out |-> out]
    /\ UNCHANGED <<tools, versions, now, ct, gw>>

\* The platform driven the way the harness does: one request at a time
\* registers "weather", active versions are created, retired and
\* re-activated, the registry is read and the tool is called through the
\* gateway.
HarnessCreateTool ==
    \/ create_tool_query(1, "weather")
    \/ create_tool_commit(1)
HarnessReads ==
    \/ list_tools(NoneStr)
    \/ \E tool_id \in ToolIds : get_tool(tool_id)
    \/ \E tool_id \in ToolIds, status \in {Unset, "active"} :
            list_tool_versions(tool_id, status)
    \/ GetToolVersion
    \/ ResolveTool

NextPlatform ==
    \/ HarnessCreateTool
    \/ HarnessCreateToolVersion
    \/ HarnessUpdateStatus
    \/ HarnessReads
    \/ HarnessCallResolve
    \/ call_tool_dispatch
    \/ call_tool_request_error
    \/ HarnessCallResponse

SpecPlatform == Init /\ [][NextPlatform]_vars

-----------------------------------------------------------------------------
(* Properties *)

\* C1: a create_tool whose slug is already stored answers 400 and adds no
\* row, and in every reachable store no two tools share a slug.
C1_DuplicateSlugRejected ==
    /\ [](\A t1, t2 \in tools : t1.slug = t2.slug => t1 = t2)
    /\ [][\A r \in 1..NumCreators, slug \in Slugs :
            (create_tool_query(r, slug) /\ ToolsBySlug(slug) # {}) =>
                /\ tools' = tools
                /\ ct'[r].pc = "done"
                /\ ct'[r].status = 400
                /\ resp'.status = 400]_vars

\* A second create_tool for a stored slug was answered 400 and the slug has
\* exactly one row.
C1_Witness ==
    \E r \in 1..NumCreators :
        /\ ct[r].pc = "done"
        /\ ct[r].status = 400
        /\ Cardinality(ToolsBySlug(ct[r].slug)) = 1

\* C2: of two concurrent create_tool requests for the same new slug exactly
\* one is answered 201, the other is answered 400, and the slug has exactly
\* one row.
C2_RaceLoserGetsConflict ==
    \A r1, r2 \in 1..NumCreators :
        (/\ r1 # r2
         /\ ct[r1].pc = "done"
         /\ ct[r2].pc = "done"
         /\ ct[r1].slug = ct[r2].slug
         /\ ct[r1].status = 201)
        => /\ ct[r2].status = 400
           /\ Cardinality(ToolsBySlug(ct[r1].slug)) = 1

\* C3: for a slug whose tool has an active version, resolve_tool answers 200
\* with that tool and one of its active versions, whose created_at no other
\* active version of the tool exceeds; valid_from and valid_to are not read.
C3_ResolveLatestActive ==
    resp.op = "resolve_tool" =>
        /\ (\E t \in tools, v \in versions :
                t.slug = resp.slug /\ v.tool_id = t.id /\ v.status = "active")
            => resp.out.status = 200
        /\ resp.out.status = 200 =>
            /\ resp.out.tool \in tools
            /\ resp.out.tool.slug = resp.slug
            /\ resp.out.version \in versions
            /\ resp.out.version.tool_id = resp.out.tool.id
            /\ resp.out.version.status = "active"
            /\ \A w \in versions :
                (w.tool_id = resp.out.tool.id /\ w.status = "active")
                    => w.created_at <= resp.out.version.created_at

\* resolve_tool returned the later of two active versions of a tool, one
\* whose validity window had closed, the earlier one having no window.
C3_Witness ==
    /\ resp.op = "resolve_tool"
    /\ resp.out.status = 200
    /\ resp.out.version.valid_to # NoTime
    /\ resp.out.version.valid_to < now
    /\ \E w \in versions :
        /\ w.tool_id = resp.out.tool.id
        /\ w.status = "active"
        /\ w.valid_to = NoTime
        /\ w.created_at < resp.out.version.created_at

\* C4: resolve_tool answers 404 exactly when no tool has the slug, or the
\* tool has no version, or the tool has versions none of which is active;
\* a version it returns is active.
C4_ResolveNotFound ==
    resp.op = "resolve_tool" =>
        LET owner == {t \in tools : t.slug = resp.slug}
            owned == {v \in versions : \E t \in owner : v.tool_id = t.id}
        IN  /\ resp.out.status \in {200, 404}
            /\ resp.out.status = 404 <=>
                \/ owner = {}
                \/ owned = {}
                \/ (owned # {} /\ \A v \in owned : v.status # "active")
            /\ resp.out.status = 200 =>
                resp.out.version.status \notin
                    {"draft", "deprecated", "retired"}

\* resolve_tool answered 404 for a tool that has versions, a deprecated one
\* among them, none active.
C4_Witness ==
    /\ resp.op = "resolve_tool"
    /\ resp.out.status = 404
    /\ \E t \in tools, v \in versions :
        t.slug = resp.slug /\ v.tool_id = t.id /\ v.status = "deprecated"

\* C5: when the resolve step does not succeed, call_tool fails with the
\* status the resolver produced and sends nothing to a tool endpoint.
C5_ResolveFailurePropagates ==
    (gw.pc = "done" /\ ~(gw.reg.kind = "response" /\ gw.reg.status = 200))
        => /\ gw.reg.kind = "response"
           /\ gw.reply.status = gw.reg.status
           /\ gw.sent = <<>>

\* C6: when the tool endpoint answers, with whatever status, call_tool
\* answers 200 with tool_status_code the endpoint's status and the tool and
\* version resolve returned.
C6_DownstreamStatusPassedThrough ==
    (gw.pc = "done" /\ gw.answer.kind = "response") =>
        /\ gw.reply.status = 200
        /\ gw.reply.tool_status_code = gw.answer.status
        /\ gw.reply.tool \in tools
        /\ gw.reply.tool.slug = gw.slug
        /\ gw.reply.version \in versions
        /\ gw.reply.version = gw.reg.out.version

\* The endpoint answered 500 and call_tool answered 200.
C6_Witness ==
    /\ gw.pc = "done"
    /\ gw.answer.kind = "response"
    /\ gw.answer.status = 500
    /\ gw.reply.status = 200

\* C7: a call_tool sends at most one request to the tool endpoint; when that
\* request fails at transport level the call ends with 502.
C7_SingleDispatch ==
    /\ Len(gw.sent) <= 1
    /\ gw.answer = TransportError =>
        /\ gw.pc = "done"
        /\ gw.reply.status = 502
        /\ Len(gw.sent) = 1

\* The one request sent failed at transport level and the call ended.
C7_Witness ==
    /\ gw.pc = "done"
    /\ gw.answer = TransportError
    /\ Len(gw.sent) = 1

\* C8: endpoint_method GET sends the input as query parameters, POST and an
\* absent endpoint_method send it as a JSON body; a GET version whose
\* endpoint answers 200 with a JSON body yields 200 with that body as result.
C8_DispatchForm ==
    gw.pc \in {"resolved", "awaiting", "done"} /\ gw.reg.kind = "response"
      /\ gw.reg.status = 200 =>
        LET version == gw.reg.out.version
            method == version.endpoint_method
        IN  /\ gw.sent # <<>> =>
                /\ gw.sent[1].payload = gw.input
                /\ method = M_GET => gw.sent[1].form = "query"
                /\ method = M_POST => gw.sent[1].form = "json"
                /\ method = NoneStr => gw.sent[1].form = "json"
            /\ (/\ gw.pc \in {"awaiting", "done"}
                /\ method \in {M_GET, M_POST, NoneStr}
                /\ version.endpoint_url \in {U_abs, U_abss})
                => gw.sent # <<>>
            /\ (/\ gw.pc = "done"
                /\ method = M_GET
                /\ gw.answer = [kind |-> "response", status |-> 200,
                                text |-> BodyJson])
                => /\ gw.reply.status = 200
                   /\ gw.reply.result = [temperatureC |-> "26.5"]

\* A GET version was called, the input went out as query parameters, the
\* endpoint answered 200 with JSON, and call_tool returned it.
C8_Witness ==
    /\ gw.pc = "done"
    /\ gw.reg.kind = "response"
    /\ gw.reg.status = 200
    /\ gw.reg.out.version.endpoint_method = M_GET
    /\ gw.sent # <<>>
    /\ gw.sent[1].form = "query"
    /\ gw.answer = [kind |-> "response", status |-> 200, text |-> BodyJson]
    /\ gw.reply.result = [temperatureC |-> "26.5"]

\* endpoint_url carries a scheme prefix: "<scheme>://" leads it.
CarriesScheme(url) ==
    \E i \in 2..(Len(url) - 2) :
        /\ SubSeq(url, i, i + 2) = SchemeSep
        /\ \A j \in 1..(i - 1) : url[j] \notin {":", "/"}

\* C9: the target URL is endpoint_url unchanged exactly when endpoint_url
\* carries a scheme prefix, and "{endpoint_protocol}://" followed by
\* endpoint_url otherwise.
C9_TargetUrl ==
    gw.target # NoneStr =>
        LET version == gw.reg.out.version
        IN  /\ gw.target = version.endpoint_url
                <=> CarriesScheme(version.endpoint_url)
            /\ ~CarriesScheme(version.endpoint_url) =>
                gw.target = version.endpoint_protocol \o SchemeSep
                                \o version.endpoint_url

\* C10, as stated: an empty or absent endpoint_url, or an endpoint_method
\* that is set and is neither "GET" nor "POST", makes call_tool fail with 500
\* without sending a request.
C10_BadConfigAsStated ==
    (gw.pc = "done" /\ gw.reg.kind = "response" /\ gw.reg.status = 200) =>
        LET version == gw.reg.out.version
        IN  (\/ Falsy(version.endpoint_url)
             \/ (/\ ~Falsy(version.endpoint_method)
                 /\ version.endpoint_method \notin {M_GET, M_POST}))
            => gw.reply.status = 500 /\ gw.sent = <<>>

\* C10, amended: an empty or absent endpoint_url, or an endpoint_method that
\* is neither GET nor POST once an absent or empty value is read as POST and
\* the value is upper-cased, makes call_tool fail with 500 without sending a
\* request.
C10_BadConfig ==
    (gw.pc = "done" /\ gw.reg.kind = "response" /\ gw.reg.status = 200) =>
        LET version == gw.reg.out.version
            method == IF Falsy(version.endpoint_method) THEN M_POST
                      ELSE Upper(version.endpoint_method)
        IN  (Falsy(version.endpoint_url) \/ method \notin {M_GET, M_POST})
            => gw.reply.status = 500 /\ gw.sent = <<>>

\* A version with endpoint_method PUT and an absolute URL was called and
\* call_tool failed with 500, nothing sent.
C10_Witness ==
    /\ gw.pc = "done"
    /\ gw.reg.kind = "response"
    /\ gw.reg.status = 200
    /\ gw.reg.out.version.endpoint_method = M_PUT
    /\ gw.reg.out.version.endpoint_url = U_abs
    /\ gw.reply.status = 500
    /\ gw.sent = <<>>

\* C11: update_tool_version_status succeeds for every current and new
\* status and a get_tool_version of the same pair then returns the new
\* status; for a pair that matches no row (a version of another tool
\* included) it answers 404 and changes nothing.
C11_StatusRoundTrip ==
    /\ [](resp.op = "get_tool_version" =>
            IF \E v \in versions :
                    v.tool_id = resp.tool_id /\ v.id = resp.version_id
            THEN /\ resp.out.status = 200
                 /\ resp.out.version \in versions
                 /\ resp.out.version.id = resp.version_id
                 /\ resp.out.version.tool_id = resp.tool_id
            ELSE resp.out.status = 404)
    /\ [][\A tool_id \in ToolIds, version_id \in VersionIds,
            status \in ToolStatus :
            update_tool_version_status(tool_id, version_id, status) =>
                IF \E v \in versions :
                        v.tool_id = tool_id /\ v.id = version_id
                THEN /\ resp'.status = 200
                     /\ GetToolVersionOutcome(tool_id, version_id)'.status
                            = 200
                     /\ GetToolVersionOutcome(tool_id, version_id)'
                            .version.status = status
                     /\ \A v \in versions : v.id # version_id
                            => v \in versions'
                     /\ Cardinality(versions') = Cardinality(versions)
                ELSE /\ resp'.status = 404
                     /\ versions' = versions]_vars

\* A get_tool_version returned an active version while the other tool has a
\* version too.
C11_Witness ==
    /\ resp.op = "get_tool_version"
    /\ resp.out.status = 200
    /\ resp.out.version.status = "active"
    /\ \E v \in versions : v.tool_id # resp.tool_id


\* The ids of the stored versions.
VersionIdsOf(rows) == {v.id : v \in rows}

\* C12 as stated: every row a step adds to the versions table is in status
\* draft.
C12_CreatedDraft ==
    [][\A v \in versions' :
            v.id \notin VersionIdsOf(versions) => v.status = "draft"]_vars

\* C12: a create_tool_version for a known tool adds one row whose status is
\* the payload's status, draft when the payload leaves it out; the status of
\* a stored version changes only in an update_tool_version_status step on
\* that version; no step removes a version.
C12_Lifecycle ==
    [][/\ \A tool_id \in ToolIds, label \in Labels,
             status \in PayloadStatuses, endpoint \in RegistryEndpoints :
             (/\ create_tool_version(tool_id, label, status, endpoint,
                                     NoWindow)
              /\ ToolsById(tool_id) # {})
             => \E v \in versions' :
                    /\ v.id \notin VersionIdsOf(versions)
                    /\ versions' = versions \cup {v}
                    /\ v.status = (IF status = Unset THEN "draft" ELSE status)
       /\ \A v \in versions :
             \E w \in versions' :
                 /\ w.id = v.id
                 /\ w.status # v.status =>
                        \E status \in ToolStatus :
                            update_tool_version_status(v.tool_id, v.id,
                                                       status)]_vars

\* The only stored version was just created, and it is active.
C12_Witness ==
    /\ resp.op = "create_tool_version"
    /\ resp.status = 201
    /\ Cardinality(versions) = 1
    /\ \A v \in versions : v.status = "active"


\* v is stored as an active version and no active version of its tool was
\* created later.
NewestActive(v) ==
    /\ v \in versions
    /\ v.status = "active"
    /\ \A w \in versions :
            (w.tool_id = v.tool_id /\ w.status = "active")
                => w.created_at <= v.created_at

\* out is what the store, as it is now, holds for slug: a newest active
\* version of the tool with that slug, or 404 when there is none.
AnswersCurrentStore(slug, out) ==
    IF out.status = 200
    THEN /\ out.tool \in tools
         /\ out.tool.slug = slug
         /\ out.version.tool_id = out.tool.id
         /\ NewestActive(out.version)
    ELSE /\ out.status = 404
         /\ \A t \in tools, v \in versions :
                (t.slug = slug /\ v.tool_id = t.id) => v.status # "active"

\* C13: every resolve_tool, and every resolve step of call_tool that the
\* registry answers, returns what the store holds at that moment: statuses
\* set by earlier updates are in force and no earlier result is reused.
C13_ResolveReadsCurrentStore ==
    [][/\ \A slug \in Slugs :
            resolve_tool(slug) => AnswersCurrentStore(slug, resp'.out)
       /\ (/\ gw.pc \in {"idle", "done"}
           /\ gw' # gw
           /\ gw'.reg.kind = "response"
           /\ gw'.reg.status \in {200, 404})
          => AnswersCurrentStore(gw'.slug, gw'.reg.out)]_vars

\* The last registry request was a resolve of a tool whose versions are all
\* retired, and it answered 404.
C13_Witness ==
    /\ resp.op = "resolve_tool"
    /\ resp.out.status = 404
    /\ \E t \in tools, v \in versions :
            /\ t.slug = resp.slug
            /\ v.tool_id = t.id
            /\ v.status = "retired"

\* C19: within one call_tool the registry's reply is taken once, at the
\* resolve step, where the version is a newest active one; from then on the
\* reply is kept as it is, the request goes to that version's endpoint and
\* the response carries that version, whatever the store holds by then.
C19_ResolvedOnce ==
    [][/\ (gw.pc \in {"idle", "done"} /\ gw' # gw /\ gw'.pc = "resolved")
            => NewestActive(gw'.reg.out.version)
       /\ gw.pc \in {"resolved", "awaiting"}
            => (gw'.reg = gw.reg /\ gw'.slug = gw.slug)
       /\ (/\ gw.pc = "resolved"
           /\ gw' # gw
           /\ ~Falsy(gw.reg.out.version.endpoint_url)
           /\ EndpointMethod(gw.reg.out.version) \in {M_GET, M_POST}
           /\ Sendable(TargetUrl(gw.reg.out.version)))
            => /\ gw'.pc = "awaiting"
               /\ Len(gw'.sent) = 1
               /\ gw'.sent[1].url = TargetUrl(gw.reg.out.version)
       /\ (gw.pc = "awaiting" /\ gw'.pc = "done" /\ gw'.reply.status = 200)
            => gw'.reply.version = gw.reg.out.version]_vars

\* A request is in flight to a version that is stored as retired by now,
\* while a version created later is active.
C19_Witness ==
    /\ gw.pc = "awaiting"
    /\ Len(gw.sent) = 1
    /\ \E v, w \in versions :
            /\ v.id = gw.reg.out.version.id
            /\ v.status = "retired"
            /\ w.tool_id = v.tool_id
            /\ w.status = "active"
            /\ w.created_at > v.created_at


\* C14: two resolve_tool requests for the same slug, with no change of the
\* store between them, return the same response, also when several active
\* versions share the greatest created_at.
C14_ResolveDeterministic ==
    [][(/\ resp.op = "resolve_tool"
        /\ resp'.op = "resolve_tool"
        /\ resp'.slug = resp.slug
        /\ tools' = tools
        /\ versions' = versions)
       => resp'.out = resp.out]_vars


\* C15: whenever the tool endpoint answered, call_tool succeeds; its result
\* is the parsed value when the body is JSON and {"raw": <body text>} when
\* it is not.
C15_JsonOrRaw ==
    (gw.pc = "done" /\ gw.answer.kind = "response")
    => /\ gw.reply.kind = "response"
       /\ gw.reply.status = 200
       /\ gw.answer.text = BodyJson
            => gw.reply.result = [temperatureC |-> "26.5"]
       /\ gw.answer.text = BodyText
            => gw.reply.result = [raw |-> BodyText]

\* A call whose tool endpoint answered 200 with a plain-text body.
C15_Witness ==
    /\ gw.pc = "done"
    /\ gw.answer.kind = "response"
    /\ gw.answer.status = 200
    /\ gw.answer.text = BodyText
    /\ gw.reply.result = [raw |-> BodyText]


\* text occurs in s as a run of consecutive characters.
Contains(s, text) ==
    \E i \in 1..(Len(s) + 1) :
        /\ i + Len(text) - 1 <= Len(s)
        /\ SubSeq(s, i, i + Len(text) - 1) = text

\* C16: list_tools returns exactly the stored tools whose slug or
\* display_name contains the search text, letter case aside, newest first;
\* without a search text it returns every stored tool.
C16_ListTools ==
    resp.op = "list_tools"
    => /\ {resp.out[i] : i \in 1..Len(resp.out)}
            = IF resp.search = NoneStr \/ resp.search = <<>>
              THEN tools
              ELSE {t \in tools :
                        \/ Contains(Lower(t.slug), Lower(resp.search))
                        \/ Contains(Lower(t.display_name),
                                    Lower(resp.search))}
       /\ \A i, j \in 1..Len(resp.out) :
            /\ i # j => resp.out[i] # resp.out[j]
            /\ i < j => resp.out[i].created_at >= resp.out[j].created_at


\* C18: every stored version belongs to a stored tool; a
\* create_tool_version for an unknown tool answers 404 and adds nothing, one
\* for a known tool adds exactly one version of that tool, whatever labels
\* its versions already carry; no step removes a tool.
C18_VersionsOwned ==
    /\ [](\A v \in versions : \E t \in tools : t.id = v.tool_id)
    /\ [][/\ \A tool_id \in ToolIds, label \in Labels,
                status \in PayloadStatuses, endpoint \in RegistryEndpoints :
                create_tool_version(tool_id, label, status, endpoint,
                                    NoWindow)
                => IF \E t \in tools : t.id = tool_id
                   THEN /\ resp'.status = 201
                        /\ \E v \in versions' :
                                /\ v \notin versions
                                /\ versions' = versions \cup {v}
                                /\ v.tool_id = tool_id
                                /\ v.version = label
                   ELSE /\ resp'.status = 404
                        /\ versions' = versions
          /\ tools \subseteq tools']_vars

\* A version was just created for a tool that already had a version with
\* the same label.
C18_Witness ==
    /\ resp.op = "create_tool_version"
    /\ resp.status = 201
    /\ \E v, w \in versions :
            /\ v.id # w.id
            /\ v.tool_id = w.tool_id
            /\ v.version = w.version


\* The rows of old that are not in new as they were.
Rewritten(old, new) == old \ new

\* The handlers that only read the store.
ReadOps ==
    {"list_tools", "get_tool", "list_tool_versions", "get_tool_version",
     "resolve_tool"}

\* C17: a successful create_tool, create_tool_version or
\* update_tool_version_status writes one row and nothing else, a failed one
\* writes nothing, and no step that answers a read request or moves a
\* call_tool on changes the tools or the versions table.
C17_OneWrite ==
    [][/\ create_tool_query(1, "weather")
            => (tools' = tools /\ versions' = versions)
       /\ create_tool_commit(1)
            => /\ versions' = versions
               /\ IF ct'[1].status = 201
                  THEN /\ Rewritten(tools, tools') = {}
                       /\ Cardinality(Rewritten(tools', tools)) = 1
                  ELSE tools' = tools
       /\ HarnessCreateToolVersion
            => /\ tools' = tools
               /\ IF resp'.status = 201
                  THEN /\ Rewritten(versions, versions') = {}
                       /\ Cardinality(Rewritten(versions', versions)) = 1
                  ELSE versions' = versions
       /\ \A tool_id \in ToolIds, version_id \in VersionIds,
             status \in {"active", "retired"} :
             update_tool_version_status(tool_id, version_id, status)
             => /\ tools' = tools
                /\ IF resp'.status = 200
                   THEN /\ \A v \in versions :
                                v.id # version_id => v \in versions'
                        /\ \A v \in versions' :
                                v.id # version_id => v \in versions
                        /\ \E v \in versions' :
                                v.id = version_id /\ v.status = status
                        /\ Cardinality(versions') = Cardinality(versions)
                   ELSE versions' = versions
       /\ (\/ resp' # resp /\ resp'.op \in ReadOps
           \/ gw' # gw)
            => (tools' = tools /\ versions' = versions)]_vars

\* A call through the gateway has been answered, a second create_tool of
\* "weather" has been refused, and the registry holds one tool and two
\* versions, one of them retired.
C17_Witness ==
    /\ gw.pc = "done"
    /\ gw.reply.status = 200
    /\ ct[1].pc = "done"
    /\ ct[1].status = 400
    /\ Cardinality(tools) = 1
    /\ Cardinality(versions) = 2
    /\ \E v \in versions : v.status = "retired"

====
